---------------------------- MODULE Spec2Model ----------------------------
(***************************************************************************)
(* Model of github.com/fako1024/numerics, package root: the iterative      *)
(* root finder (Find / Finder.loop), its stepping strategies               *)
(* (NewtonRaphson, Homeier) and the bisection solver (Bisect).             *)
(*                                                                         *)
(* Go's float64 is modelled bit-exactly as IEEE-754 binary64 with          *)
(* round-to-nearest-even: a finite value is sign, 53-bit significand and   *)
(* exponent, the significand held as little-endian limbs of 14 bits since  *)
(* TLC's integers have 32 bits.  Operations are evaluated one by one, as   *)
(* the amd64 build does (no fused multiply-add).                           *)
(***************************************************************************)
EXTENDS Integers, Sequences, FiniteSets, TLC

(***************************************************************************)
(* Evaluate once, then use: The({body : v \in {e}}) is body with v the     *)
(* value of e.  It keeps the cost of an evaluation linear in the size of   *)
(* the computation even when TLC does not cache operator arguments.        *)
(***************************************************************************)
The(S) == CHOOSE r \in S : TRUE

Max(i, j) == IF i >= j THEN i ELSE j
Min(i, j) == IF i <= j THEN i ELSE j

(***************************************************************************)
(* Natural numbers of arbitrary size: little-endian sequences of limbs in  *)
(* 0..LimbBase-1 with no zero limb at the top; <<>> is zero.               *)
(***************************************************************************)
LimbBits == 14
LimbBase == 2^LimbBits

At(a, i) == IF i <= Len(a) THEN a[i] ELSE 0

BTrim(a) ==
  The({
    IF \A i \in 1..Len(v) : v[i] = 0 THEN <<>>
    ELSE SubSeq(v, 1, CHOOSE i \in 1..Len(v) :
                        v[i] # 0 /\ \A j \in (i + 1)..Len(v) : v[j] = 0) : v \in {a}})

RECURSIVE BFromInt(_)
BFromInt(n) ==
  IF n = 0 THEN <<>> ELSE <<n % LimbBase>> \o BFromInt(n \div LimbBase)

\* limbs i.. of a + b, with carry c into limb i
RECURSIVE BAddFrom(_, _, _, _)
BAddFrom(a, b, i, c) ==
  IF i > Len(a) /\ i > Len(b) THEN (IF c = 0 THEN <<>> ELSE <<c>>)
  ELSE The({
         <<s % LimbBase>> \o BAddFrom(a, b, i + 1, s \div LimbBase) : s \in {At(a, i) + At(b, i) + c}})

BAdd(a, b) == The({ BAddFrom(u, v, 1, 0) : u \in {a}, v \in {b}})

\* limbs i.. of a - b for a >= b, with borrow c from limb i
RECURSIVE BSubFrom(_, _, _, _)
BSubFrom(a, b, i, c) ==
  IF i > Len(a) THEN <<>>
  ELSE The({
         IF d < 0 THEN <<d + LimbBase>> \o BSubFrom(a, b, i + 1, 1)
         ELSE <<d>> \o BSubFrom(a, b, i + 1, 0) : d \in {At(a, i) - At(b, i) - c}})

BSub(a, b) == The({ BTrim(BSubFrom(u, v, 1, 0)) : u \in {a}, v \in {b}})

\* -1, 0, 1 as a < b, a = b, a > b
RECURSIVE BCmpTop(_, _, _)
BCmpTop(a, b, i) ==
  IF i = 0 THEN 0
  ELSE IF a[i] < b[i] THEN -1
  ELSE IF a[i] > b[i] THEN 1
  ELSE BCmpTop(a, b, i - 1)

BCmp(a, b) ==
  The({
    IF Len(u) < Len(v) THEN -1
    ELSE IF Len(u) > Len(v) THEN 1
    ELSE BCmpTop(u, v, Len(u)) : u \in {a}, v \in {b}})

\* limbs i.. of a * d for one limb d > 0, with carry c into limb i
RECURSIVE BMulSmallFrom(_, _, _, _)
BMulSmallFrom(a, d, i, c) ==
  IF i > Len(a) THEN (IF c = 0 THEN <<>> ELSE <<c>>)
  ELSE The({
         <<s % LimbBase>> \o BMulSmallFrom(a, d, i + 1, s \div LimbBase) : s \in {a[i] * d + c}})

BMulSmall(a, d) == The({ BMulSmallFrom(u, v, 1, 0) : u \in {a}, v \in {d}})

\* a * LimbBase^q
BShlLimbs(a, q) ==
  The({ IF v = <<>> THEN <<>> ELSE [i \in 1..q |-> 0] \o v : v \in {a}})

RECURSIVE BMulFrom(_, _, _)
BMulFrom(a, b, j) ==
  IF j > Len(b) THEN <<>>
  ELSE BAdd(IF b[j] = 0 THEN <<>> ELSE BMulSmall(a, b[j]),
            BShlLimbs(BMulFrom(a, b, j + 1), 1))

BMul(a, b) == The({ BMulFrom(u, v, 1) : u \in {a}, v \in {b}})

\* a * 2^k
BShl(a, k) == BShlLimbs(BMulSmall(a, 2^(k % LimbBits)), k \div LimbBits)

\* floor(a / 2^k)
BShr(a, k) ==
  The({
    LET q == w \div LimbBits
        r == w % LimbBits
        n == Len(v) - q
    IN  IF n <= 0 THEN <<>>
        ELSE BTrim([i \in 1..n |->
               (At(v, q + i) \div 2^r) + (At(v, q + i + 1) % 2^r) * 2^(LimbBits - r)]) : v \in {a}, w \in {k}})

\* bit i (from 0) of a
BBit(a, i) ==
  The({ (At(v, w \div LimbBits + 1) \div 2^(w % LimbBits)) % 2 : v \in {a}, w \in {i}})

\* whether a mod 2^k is not zero
BLowNonZero(a, k) ==
  The({
    \/ \E i \in 1..(w \div LimbBits) : At(v, i) # 0
    \/ At(v, w \div LimbBits + 1) % 2^(w % LimbBits) # 0 : v \in {a}, w \in {k}})

\* number of bits of a
BBitLen(a) ==
  The({
    IF v = <<>> THEN 0
    ELSE LimbBits * (Len(v) - 1)
           + (CHOOSE n \in 1..LimbBits : 2^(n - 1) <= v[Len(v)] /\ v[Len(v)] < 2^n) : v \in {a}})

\* One quotient limb: k more bits of r / b (r < b), <<digit, remainder>>
RECURSIVE BDivDigit(_, _, _, _)
BDivDigit(r, b, d, k) ==
  IF k = 0 THEN <<d, r>>
  ELSE The({
         IF BCmp(r2, b) >= 0
         THEN BDivDigit(BSub(r2, b), b, 2 * d + 1, k - 1)
         ELSE BDivDigit(r2, b, 2 * d, k - 1) : r2 \in {BAdd(r, r)}})

\* n quotient limbs of r / b (r < b), <<limbs, remainder>>
RECURSIVE BDivLimbs(_, _, _)
BDivLimbs(r, b, n) ==
  IF n = 0 THEN <<<<>>, r>>
  ELSE The({
         The({
           <<rest[1] \o <<top[1]>>, rest[2]>> : rest \in {BDivLimbs(top[2], b, n - 1)}}) : top \in {BDivDigit(r, b, 0, LimbBits)}})

\* <<floor(a * LimbBase^n / b), remainder # 0>> for a < 2b
BDivFrac(a, b, n) ==
  The({
    The({
      The({
        <<BTrim(qr[1] \o <<lr[1]>>), qr[2] # <<>>>> : qr \in {BDivLimbs(lr[2], v, n)}}) : lr \in {IF BCmp(u, v) >= 0 THEN <<1, BSub(u, v)>> ELSE <<0, u>>}}) : u \in {a}, v \in {b}})

(***************************************************************************)
(* float64.  A value is a record: k is "nan", "inf" or "fin"; s is the     *)
(* sign bit; for a finite value the magnitude is m * 2^e, with m of        *)
(* exactly MantBits bits (normal) or fewer at e = ExpMin (subnormal), and  *)
(* m = <<>>, e = 0 for the two zeros.  Every value has one representation, *)
(* so the bit pattern decides record equality.                             *)
(***************************************************************************)
MantBits == 53
ExpMin   == -1074
ExpMax   == 971

NaN          == [k |-> "nan", s |-> 0, m |-> <<>>, e |-> 0]
Inf(sg)      == [k |-> "inf", s |-> sg, m |-> <<>>, e |-> 0]
Zero(sg)     == [k |-> "fin", s |-> sg, m |-> <<>>, e |-> 0]
Fin(sg, m, e) == [k |-> "fin", s |-> sg, m |-> m, e |-> e]

IsNaN(a)    == a.k = "nan"
IsFinite(a) == a.k = "fin"
IsZero(a)   == a.k = "fin" /\ a.m = <<>>
\* math.IsInf(f, sign): sign > 0 asks for +Inf, sign < 0 for -Inf, 0 for either
IsInf(a, sign) ==
  a.k = "inf" /\ (sign = 0 \/ (sign > 0 /\ a.s = 0) \/ (sign < 0 /\ a.s = 1))

\* n2 * 2^e2 rounded to MantBits bits (or to the subnormal grid), ties to even
PackRound(sg, n2, e2) ==
  The({
    IF sh <= 0
    THEN The({
           IF e2 - t > ExpMax THEN Inf(sg) ELSE Fin(sg, BShl(n2, t), e2 - t) : t \in {Min(-sh, e2 - ExpMin)}})
    ELSE The({
           The({
             The({
               The({
                 IF m = <<>> THEN Zero(sg)
                 ELSE IF ef > ExpMax THEN Inf(sg)
                 ELSE Fin(sg, m, ef) : m \in {IF carry THEN BShr(q1, 1) ELSE q1}, ef \in {e2 + sh + (IF carry THEN 1 ELSE 0)}}) : carry \in {BBitLen(q1) > MantBits}}) : q1 \in {IF /\ BBit(n2, sh - 1) = 1
                   /\ (BLowNonZero(n2, sh - 1) \/ BBit(q, 0) = 1)
                THEN BAdd(q, <<1>>) ELSE q}}) : q \in {BShr(n2, sh)}}) : sh \in {Max(BBitLen(n2) - MantBits, ExpMin - e2)}})

\* The float64 nearest to (-1)^sg * (n + f) * 2^e, ties to even, where
\* 0 < f < 1 if sticky and f = 0 otherwise (sticky only with n of 55 bits or more)
Pack(sg, n, e, sticky) ==
  The({
    IF nv = <<>> THEN Zero(sg)
    ELSE IF sticky THEN The({ PackRound(sg, n2, ev - 1) : n2 \in {BAdd(BAdd(nv, nv), <<1>>)}})
    ELSE PackRound(sg, nv, ev) : nv \in {n}, ev \in {e}})

\* float64(n) for a small integer n
FInt(n) == Pack(IF n < 0 THEN 1 ELSE 0, BFromInt(IF n < 0 THEN -n ELSE n), 0, FALSE)

\* The float64 with significand hi * 2^27 + lo and exponent e
FConst(sg, hi, lo, e) == Fin(sg, BAdd(BShl(BFromInt(hi), 27), BFromInt(lo)), e)

FNeg(a) == The({ IF IsNaN(u) THEN u ELSE [u EXCEPT !.s = 1 - u.s] : u \in {a}})
FAbs(a) == The({ IF IsNaN(u) THEN u ELSE [u EXCEPT !.s = 0] : u \in {a}})

\* a * b
FMul(a, b) ==
  The({
    LET sg == (u.s + v.s) % 2
    IN  IF IsNaN(u) \/ IsNaN(v) THEN NaN
        ELSE IF u.k = "inf" \/ v.k = "inf"
             THEN (IF IsZero(u) \/ IsZero(v) THEN NaN ELSE Inf(sg))
        ELSE Pack(sg, BMul(u.m, v.m), u.e + v.e, FALSE) : u \in {a}, v \in {b}})

\* a / b
FDiv(a, b) ==
  The({
    LET sg == (u.s + v.s) % 2
    IN  IF IsNaN(u) \/ IsNaN(v) THEN NaN
        ELSE IF u.k = "inf" THEN (IF v.k = "inf" THEN NaN ELSE Inf(sg))
        ELSE IF v.k = "inf" THEN Zero(sg)
        ELSE IF IsZero(v) THEN (IF IsZero(u) THEN NaN ELSE Inf(sg))
        ELSE IF IsZero(u) THEN Zero(sg)
        ELSE The({
               The({
                 Pack(sg, qr[1], (u.e - tu) - (v.e - tv) - 4 * LimbBits, qr[2]) : qr \in {BDivFrac(BShl(u.m, tu), BShl(v.m, tv), 4)}}) : tu \in {MantBits - BBitLen(u.m)}, tv \in {MantBits - BBitLen(v.m)}}) : u \in {a}, v \in {b}})

\* a + b for finite, non-zero a and b with a.e >= b.e
FAddAligned(hi, lo0) ==
  \* a term below 2^-7 ulp of the other only decides "inexact"
  The({
    The({
      IF hi.s = lo.s THEN Pack(hi.s, BAdd(nhi, lo.m), lo.e, FALSE)
      ELSE The({
             IF c = 0 THEN Zero(0)
             ELSE IF c > 0 THEN Pack(hi.s, BSub(nhi, lo.m), lo.e, FALSE)
             ELSE Pack(lo.s, BSub(lo.m, nhi), lo.e, FALSE) : c \in {BCmp(nhi, lo.m)}}) : nhi \in {BShl(hi.m, hi.e - lo.e)}}) : lo \in {IF hi.e - lo0.e > 60 THEN Fin(lo0.s, <<1>>, hi.e - 60) ELSE lo0}})

\* a + b
FAdd(a, b) ==
  The({
    IF IsNaN(u) \/ IsNaN(v) THEN NaN
    ELSE IF u.k = "inf" THEN (IF v.k = "inf" /\ v.s # u.s THEN NaN ELSE u)
    ELSE IF v.k = "inf" THEN v
    ELSE IF IsZero(u) /\ IsZero(v) THEN Zero(IF u.s = v.s THEN u.s ELSE 0)
    ELSE IF IsZero(u) THEN v
    ELSE IF IsZero(v) THEN u
    ELSE IF u.e >= v.e THEN FAddAligned(u, v) ELSE FAddAligned(v, u) : u \in {a}, v \in {b}})

\* a - b
FSub(a, b) == FAdd(a, FNeg(b))

\* -1, 0, 1 as |a| < |b|, |a| = |b|, |a| > |b|, for a and b not NaN
MagCmp(a, b) ==
  IF a.k = "inf" THEN (IF b.k = "inf" THEN 0 ELSE 1)
  ELSE IF b.k = "inf" THEN -1
  ELSE IF IsZero(a) THEN (IF IsZero(b) THEN 0 ELSE -1)
  ELSE IF IsZero(b) THEN 1
  ELSE IF a.e < b.e THEN -1
  ELSE IF a.e > b.e THEN 1
  ELSE BCmp(a.m, b.m)

\* a < b, a > b, a == b, a != b as Go evaluates them (all false on NaN but !=)
FLt(a, b) ==
  The({
    /\ ~IsNaN(u) /\ ~IsNaN(v)
    /\ ~(IsZero(u) /\ IsZero(v))
    /\ IF u.s # v.s THEN u.s = 1
       ELSE IF u.s = 0 THEN MagCmp(u, v) < 0 ELSE MagCmp(u, v) > 0 : u \in {a}, v \in {b}})
FGt(a, b) == FLt(b, a)
FEq(a, b) ==
  The({
    /\ ~IsNaN(u) /\ ~IsNaN(v)
    /\ (u = v \/ (IsZero(u) /\ IsZero(v))) : u \in {a}, v \in {b}})
FNe(a, b) == ~FEq(a, b)

\* Literals of the source, each the float64 nearest to the decimal
F0     == Zero(0)
F1     == FInt(1)
F2     == FInt(2)
F0p5   == FConst(0, 33554432, 0, -53)
F0p1   == FConst(0, 53687091, 26843546, -56)
F1em15 == FConst(0, 37778931, 115824150, -102)
F1em9  == FConst(0, 36028797, 2545301, -82)
F1e9       == FConst(0, 62500000, 0, -23)
F1em11     == FConst(0, 46116860, 24732821, -89)
F612p80    == Pack(0, BFromInt(612), 80, FALSE)
F25p40     == Pack(0, BFromInt(25), 40, FALSE)
MaxFloat64 == FConst(0, 67108863, 134217727, 971)
F3p1022 == Pack(0, BFromInt(3), 1022, FALSE)
F2p1023 == Pack(0, BFromInt(1), 1023, FALSE)

(***************************************************************************)
(* The caller's functions fx and dfx.  The first three are the cases of    *)
(* TestNewtonTable and TestTableHeuristics that need no cosine; the others *)
(* are further pure functions a caller can pass: the first case scaled by  *)
(* 2^80, a linear function, a double root, a function without root and two *)
(* with a constant step.                                                   *)
(***************************************************************************)
Problems == {"SquareRoot2", "StationaryPoint", "Cycle", "SquareRoot2Scaled",
             "Linear", "DoubleRoot", "NoRoot", "StepUp", "StepDown", "LinearHuge"}

Fx(p, x) ==
  The({ CASE p = "SquareRoot2"       -> FSub(FMul(v, v), FInt(612))
          [] p = "StationaryPoint"   -> FSub(F1, FMul(v, v))
          [] p = "Cycle"             -> FAdd(FSub(FMul(FMul(v, v), v), FMul(F2, v)), F2)
          [] p = "SquareRoot2Scaled" -> FSub(FMul(v, v), F612p80)
          [] p = "Linear"            -> FSub(v, FInt(3))
          [] p = "DoubleRoot"        -> FMul(v, v)
          [] p = "NoRoot"            -> FAdd(FMul(v, v), F1)
          [] p = "StepUp"            -> FInt(-1)
          [] p = "StepDown"          -> F1
          [] p = "LinearHuge"        -> FSub(v, F3p1022)
        : v \in {x} })

Dfx(p, x) ==
  The({ CASE p = "SquareRoot2"       -> FMul(F2, v)
          [] p = "StationaryPoint"   -> FMul(FInt(-2), v)
          [] p = "Cycle"             -> FSub(FMul(FMul(FInt(3), v), v), F2)
          [] p = "SquareRoot2Scaled" -> FMul(F2, v)
          [] p = "Linear"            -> F1
          [] p = "DoubleRoot"        -> FMul(F2, v)
          [] p = "NoRoot"            -> FMul(F2, v)
          [] p = "StepUp"            -> F1
          [] p = "StepDown"          -> F1
          [] p = "LinearHuge"        -> F1
        : v \in {x} })

\* NewtonStep as it would be if a zero derivative left x where it is
NewtonStepGuarded(x, fxVal, dfxVal) ==
  IF IsZero(dfxVal) THEN x ELSE FSub(x, FDiv(fxVal, dfxVal))

\* x - fx(x)/dfx(x), for the values fxVal of fx(x) and dfxVal of dfx(x)
NewtonStep(x, fxVal, dfxVal) == FSub(x, FDiv(fxVal, dfxVal))

\* NewtonRaphson as it would be with the sign of the step wrong
NewtonRaphsonPlus(x, p) ==
  The({ FAdd(v, FDiv(Fx(p, v), Dfx(p, v))) : v \in {x} })

\* x - fx(x)/dfx(x)
NewtonRaphson(x, p) ==
  The({ NewtonStep(v, Fx(p, v), Dfx(p, v)) : v \in {x} })

\* fxVal := fx(x); x - fxVal/dfx(x - 0.5*fxVal/dfx(x))
Homeier(x, p) ==
  The({ FSub(v, FDiv(fxVal, Dfx(p, FSub(v, FDiv(FMul(F0p5, fxVal), Dfx(p, v))))))
        : v \in {x}, fxVal \in {Fx(p, x)} })

Methods == {"NewtonRaphson", "Homeier"}

\* n.method(x, n.fx, n.dfx)
Method(m, x, p) == IF m = "Homeier" THEN Homeier(x, p) ELSE NewtonRaphson(x, p)

(***************************************************************************)
(* Finder and its functional options.                                      *)
(***************************************************************************)
maxRetries == 100

\* obj := &Finder{...} in Find: the defaults
NewFinder(p) ==
  [prob            |-> p,
   method          |-> "NewtonRaphson",
   xMin            |-> FNeg(MaxFloat64),
   xMax            |-> MaxFloat64,
   minIterations   |-> 5,
   maxIterations   |-> 25,
   targetPrecision |-> F1em9,
   useHeuristics   |-> FALSE]

WithMinIterations(n, f)   == [f EXCEPT !.minIterations = n]
WithMaxIterations(n, f)   == [f EXCEPT !.maxIterations = n]
WithTargetPrecision(t, f) == [f EXCEPT !.targetPrecision = t]
WithMethod(m, f)          == [f EXCEPT !.method = m]
WithLimits(lo, hi, f)     == [f EXCEPT !.xMin = lo, !.xMax = hi]
WithHeuristics(f)         == [f EXCEPT !.useHeuristics = TRUE]

\* option(obj) for one option value o
ApplyOption(o, f) ==
  CASE o.opt = "MinIterations"   -> WithMinIterations(o.n, f)
    [] o.opt = "MaxIterations"   -> WithMaxIterations(o.n, f)
    [] o.opt = "TargetPrecision" -> WithTargetPrecision(o.t, f)
    [] o.opt = "Method"          -> WithMethod(o.m, f)
    [] o.opt = "Limits"          -> WithLimits(o.lo, o.hi, f)
    [] o.opt = "Heuristics"      -> WithHeuristics(f)

\* for _, option := range options { option(obj) }
RECURSIVE ApplyOptions(_, _)
ApplyOptions(opts, f) ==
  IF opts = <<>> THEN f ELSE ApplyOptions(Tail(opts), ApplyOption(Head(opts), f))

OptMin(n)        == [opt |-> "MinIterations", n |-> n]
OptMax(n)        == [opt |-> "MaxIterations", n |-> n]
OptPrec(t)       == [opt |-> "TargetPrecision", t |-> t]
OptMethod(m)     == [opt |-> "Method", m |-> m]
OptLimits(lo, hi) == [opt |-> "Limits", lo |-> lo, hi |-> hi]
OptHeur          == [opt |-> "Heuristics"]

(***************************************************************************)
(* State.  Find may be running in several calls at once (Calls); every     *)
(* variable of Finder.loop is local to its call.                           *)
(***************************************************************************)
Calls == {"A", "B"}

VARIABLES
  pc,            \* per call: "idle" (no call), "loop" (at the head of the for loop), "done"
  arg,           \* per call: the arguments of Find: fx/dfx, xInit, options
  obj,           \* per call: the Finder built by Find
  x,             \* per call: loop variable x
  nIter,         \* per call: loop variable nIter
  resultLookup,  \* per call: loop variable resultLookup (the keys of the map)
  ret,           \* per call: the value returned, once pc is "done"
  last,          \* per call: what the latest round did (history)
  nRetry,        \* per call: restarts since the latest accepted step (history)
  nCalls,        \* number of Find calls made so far
  log            \* <<arguments, result>> of every call that has returned (history)

\* A call of Bisect
VARIABLES
  bpc,           \* "idle", "loop" (at the head of the for loop), "done"
  barg,          \* the arguments of Bisect: fx, aInit, bInit
  a, b,          \* the current lower and upper limit
  i,             \* the loop counter
  bret,          \* the value returned, once bpc is "done"
  blast          \* what the latest iteration did (history)

\* A call of NewtonRaphson with functions fx, dfx of given values at x
VARIABLES
  nr             \* the argument x, the values fx(x) and dfx(x), and the result once done

\* A histogram H1[float64], a value filled into it and looked up in it
VARIABLES
  hpc,           \* "new" (built), "filled" (Fill(val) returned), "found" (FindBin(val) too)
  h,             \* the object: nBins, bins, binContent, nEntries
  hval,          \* the value
  hfound         \* what FindBin(val) returned

fvars == <<pc, arg, obj, x, nIter, resultLookup, ret, last, nRetry, nCalls, log>>
bvars == <<bpc, barg, a, b, i, bret, blast>>
nvars == <<nr>>
hvars == <<hpc, h, hval, hfound>>
vars  == <<fvars, bvars, nvars, hvars>>

NoArg  == [prob |-> "Linear", xInit |-> F0, opts |-> <<>>]
NoLast == [kind |-> "none", xNew |-> F0, tested |-> FALSE]
NoBArg == [prob |-> "Linear", aInit |-> F0, bInit |-> F0]
NoBLast == [kind |-> "none", c |-> F0, evalA |-> FALSE]

NoStep == [x |-> F0, fxVal |-> F0, dfxVal |-> F1, done |-> FALSE, ret |-> F0]
NoHist == [nBins |-> 0, bins |-> <<>>, binContent |-> <<>>, nEntries |-> 0,
           sumOfWeights |-> F0]

\* No call of Find or Bisect yet
InitRoot ==
  /\ pc = [c \in Calls |-> "idle"]
  /\ arg = [c \in Calls |-> NoArg]
  /\ obj = [c \in Calls |-> NewFinder("Linear")]
  /\ x = [c \in Calls |-> F0]
  /\ nIter = [c \in Calls |-> 0]
  /\ resultLookup = [c \in Calls |-> {}]
  /\ ret = [c \in Calls |-> F0]
  /\ last = [c \in Calls |-> NoLast]
  /\ nRetry = [c \in Calls |-> 0]
  /\ nCalls = 0
  /\ log = {}
  /\ bpc = "idle"
  /\ barg = NoBArg
  /\ a = F0
  /\ b = F0
  /\ i = 0
  /\ bret = F0
  /\ blast = NoBLast

\* No histogram
InitHist ==
  /\ hpc = "idle"
  /\ h = NoHist
  /\ hval = F0
  /\ hfound = 0

Init == InitRoot /\ InitHist /\ nr = NoStep

\* NewLookup as it would be with one map kept across calls
SharedLookup(old) == old

\* resultLookup := make(map[float64]struct{}); old is what the calls so far stored
NewLookup(old) == {}

\* Find(fx, dfx, xInit, options...) up to the head of the loop
Find(c, in) ==
  /\ pc[c] \in {"idle", "done"}
  /\ pc' = [pc EXCEPT ![c] = "loop"]
  /\ arg' = [arg EXCEPT ![c] = in]
  /\ obj' = [obj EXCEPT ![c] = ApplyOptions(in.opts, NewFinder(in.prob))]
  /\ x' = [x EXCEPT ![c] = in.xInit]
  /\ nIter' = [nIter EXCEPT ![c] = 0]
  /\ resultLookup' = [resultLookup EXCEPT ![c] =
       NewLookup(UNION {resultLookup[d] : d \in Calls})]
  /\ last' = [last EXCEPT ![c] = NoLast]
  /\ nRetry' = [nRetry EXCEPT ![c] = 0]
  /\ nCalls' = nCalls + 1
  /\ UNCHANGED <<ret, log, bvars, nvars, hvars>>

\* xNew := n.method(x, n.fx, n.dfx)
Candidate(c) == Method(obj[c].method, x[c], obj[c].prob)

\* AlreadySeen as it would be if the lookup never found a key
AlreadySeenNever(lookup, xNew) == FALSE

\* _, alreadySeen := resultLookup[xNew]: map keys are compared with ==
AlreadySeen(lookup, xNew) == \E y \in lookup : FEq(y, xNew)

\* UpperExcessHit as it would be with the test for infinity inverted
UpperExcessHitInf(c, xNew) == IsInf(xNew, 0) /\ FGt(xNew, obj[c].xMax)

\* UpperExcessHit as it would be if, with heuristics, the seen values were consulted
\* before the upper limit
UpperExcessHitLate(c, xNew) ==
  /\ ~IsInf(xNew, 0) /\ FGt(xNew, obj[c].xMax)
  /\ ~(obj[c].useHeuristics /\ FGt(FAbs(FSub(xNew, x[c])), F1em15))

\* !math.IsInf(xNew, 0) && xNew > n.xMax
UpperExcessHit(c, xNew) == ~IsInf(xNew, 0) /\ FGt(xNew, obj[c].xMax)
\* !math.IsInf(xNew, 0) && !(xNew > n.xMax) && xNew < n.xMin
LowerExcessHit(c, xNew) ==
  ~IsInf(xNew, 0) /\ ~FGt(xNew, obj[c].xMax) /\ FLt(xNew, obj[c].xMin)
ExcessHit(c, xNew) == UpperExcessHit(c, xNew) \/ LowerExcessHit(c, xNew)
\* InfHit as it would be if the recovery ran without heuristics too
InfHitAlways(c, xNew) == IsInf(xNew, 0)

\* InfHit as it would be if only +Inf were recognised
InfHitPositive(c, xNew) == obj[c].useHeuristics /\ IsInf(xNew, 1)

\* n.useHeuristics && math.IsInf(xNew, 0)
InfHit(c, xNew) == obj[c].useHeuristics /\ IsInf(xNew, 0)
\* math.Abs(xNew-x) > 1e-15
Moved(c, xNew) == FGt(FAbs(FSub(xNew, x[c])), F1em15)
CycleHit(c, xNew) ==
  obj[c].useHeuristics /\ Moved(c, xNew) /\ AlreadySeen(resultLookup[c], xNew)

\* Restart as it would be if a restarted round counted as an iteration
RestartCounting(c, kind, xNew, xNext) ==
  /\ x' = [x EXCEPT ![c] = xNext]
  /\ nIter' = [nIter EXCEPT ![c] = @ + 1]
  /\ last' = [last EXCEPT ![c] = [kind |-> kind, xNew |-> xNew, tested |-> FALSE]]
  /\ nRetry' = [nRetry EXCEPT ![c] = Min(nRetry[c] + 1, maxRetries + 1)]
  /\ UNCHANGED <<pc, arg, obj, resultLookup, ret, nCalls, log, bvars, nvars, hvars>>

\* Restart as it would be if maxRetries limited the restarts of a round
RestartCapped(c, kind, xNew, xNext) ==
  /\ last' = [last EXCEPT ![c] = [kind |-> kind, xNew |-> xNew, tested |-> FALSE]]
  /\ nRetry' = [nRetry EXCEPT ![c] = Min(nRetry[c] + 1, maxRetries + 1)]
  /\ IF nRetry[c] < maxRetries
     THEN /\ x' = [x EXCEPT ![c] = xNext]
          /\ UNCHANGED <<pc, ret, log>>
     ELSE /\ pc' = [pc EXCEPT ![c] = "done"]
          /\ ret' = [ret EXCEPT ![c] = x[c]]
          /\ log' = log \cup {<<arg[c], x[c]>>}
          /\ UNCHANGED x
  /\ UNCHANGED <<arg, obj, nIter, resultLookup, nCalls, bvars, nvars, hvars>>

\* A round that ends in "continue": x is replaced, nothing else changes
Restart(c, kind, xNew, xNext) ==
  /\ x' = [x EXCEPT ![c] = xNext]
  /\ last' = [last EXCEPT ![c] = [kind |-> kind, xNew |-> xNew, tested |-> FALSE]]
  /\ nRetry' = [nRetry EXCEPT ![c] = Min(nRetry[c] + 1, maxRetries + 1)]
  /\ UNCHANGED <<pc, arg, obj, nIter, resultLookup, ret, nCalls, log, bvars, nvars, hvars>>

\* return v
Return(c, v) ==
  /\ pc' = [pc EXCEPT ![c] = "done"]
  /\ ret' = [ret EXCEPT ![c] = v]
  /\ log' = log \cup {<<arg[c], v>>}

\* Upper Excess, setting x to (x + xMax)/2
UpperExcess(c) ==
  \E xNew \in {Candidate(c)} :
    /\ pc[c] = "loop"
    /\ UpperExcessHit(c, xNew)
    /\ Restart(c, "upper", xNew, FMul(F0p5, FAdd(x[c], obj[c].xMax)))

\* Lower Excess, setting x to (x + xMin)/2
LowerExcess(c) ==
  \E xNew \in {Candidate(c)} :
    /\ pc[c] = "loop"
    /\ LowerExcessHit(c, xNew)
    /\ Restart(c, "lower", xNew, FMul(F0p5, FAdd(x[c], obj[c].xMin)))

\* NaNAbort as it would be if a NaN candidate restarted the round
NaNRetry(c) ==
  \E xNew \in {Candidate(c)} :
    /\ pc[c] = "loop"
    /\ ~ExcessHit(c, xNew)
    /\ IsNaN(xNew)
    /\ x' = [x EXCEPT ![c] = xNew]
    /\ last' = [last EXCEPT ![c] = [kind |-> "nan", xNew |-> xNew, tested |-> FALSE]]
    /\ nRetry' = [nRetry EXCEPT ![c] = Min(nRetry[c] + 1, maxRetries + 1)]
    /\ UNCHANGED <<pc, arg, obj, nIter, resultLookup, ret, nCalls, log, bvars, nvars, hvars>>

\* If the current value is NaN, return it
NaNAbort(c) ==
  \E xNew \in {Candidate(c)} :
    /\ pc[c] = "loop"
    /\ ~ExcessHit(c, xNew)
    /\ IsNaN(xNew)
    /\ Return(c, NaN)
    /\ last' = [last EXCEPT ![c] = [kind |-> "nan", xNew |-> xNew, tested |-> FALSE]]
    /\ UNCHANGED <<arg, obj, x, nIter, resultLookup, nRetry, nCalls, bvars, nvars, hvars>>

\* x += 0.1*x + 0.1, x -= 0.1*x - 0.1
NudgeUp(v)   == FAdd(v, FAdd(FMul(F0p1, v), F0p1))
NudgeDown(v) == FSub(v, FSub(FMul(F0p1, v), F0p1))

\* Attempt to recover from infinity situations
InfRecover(c) ==
  \E xNew \in {Candidate(c)} :
    /\ pc[c] = "loop"
    /\ ~ExcessHit(c, xNew)
    /\ ~IsNaN(xNew)
    /\ InfHit(c, xNew)
    /\ Restart(c, "inf", xNew,
               IF IsInf(xNew, 1) THEN NudgeUp(x[c]) ELSE NudgeDown(x[c]))

\* Values already seen: bisect the cycle or leave the fixed point
CycleHandle(c) ==
  \E xNew \in {Candidate(c)} :
    /\ pc[c] = "loop"
    /\ ~ExcessHit(c, xNew)
    /\ ~IsNaN(xNew)
    /\ ~InfHit(c, xNew)
    /\ CycleHit(c, xNew)
    /\ Restart(c, "cycle", xNew,
               IF FNe(xNew, x[c]) THEN FDiv(FAdd(xNew, x[c]), F2) ELSE NudgeUp(x[c]))

\* math.Abs(n.fx(x)) < n.targetPrecision
Precise(c, v) == FLt(FAbs(Fx(obj[c].prob, v)), obj[c].targetPrecision)

\* LoopTest as it would be with nIter > n.maxIterations
LoopTestStrict(c, n, v) ==
  IF n >= obj[c].minIterations
  THEN [tested |-> TRUE, exit |-> Precise(c, v) \/ n > obj[c].maxIterations]
  ELSE [tested |-> FALSE, exit |-> FALSE]

\* LoopTest as it would be without the outer test of minIterations
LoopTestNoMin(c, n, v) ==
  [tested |-> TRUE, exit |-> Precise(c, v) \/ n >= obj[c].maxIterations]

\* if nIter >= n.minIterations { if math.Abs(n.fx(x)) < ... || nIter >= n.maxIterations { break } }
\* for nIter = n and x = v: whether the inner test is evaluated, and whether the loop ends
LoopTest(c, n, v) ==
  IF n >= obj[c].minIterations
  THEN [tested |-> TRUE, exit |-> Precise(c, v) \/ n >= obj[c].maxIterations]
  ELSE [tested |-> FALSE, exit |-> FALSE]

\* resultLookup[xNew] = struct{}{}
Store(lookup, xNew) == lookup \cup {xNew}

\* x = xNew; nIter++; then the test that ends the loop
Accept(c) ==
  \E xNew \in {Candidate(c)} :
    /\ pc[c] = "loop"
    /\ ~ExcessHit(c, xNew)
    /\ ~IsNaN(xNew)
    /\ ~InfHit(c, xNew)
    /\ ~CycleHit(c, xNew)
    /\ resultLookup' = [resultLookup EXCEPT ![c] =
         IF obj[c].useHeuristics /\ Moved(c, xNew) THEN Store(@, xNew) ELSE @]
    /\ x' = [x EXCEPT ![c] = xNew]
    /\ nIter' = [nIter EXCEPT ![c] = @ + 1]
    /\ nRetry' = [nRetry EXCEPT ![c] = 0]
    /\ \E t \in {LoopTest(c, nIter[c] + 1, xNew)} :
         /\ last' = [last EXCEPT ![c] =
              [kind |-> "accept", xNew |-> xNew, tested |-> t.tested]]
         /\ IF t.exit THEN Return(c, xNew) ELSE UNCHANGED <<pc, ret, log>>
    /\ UNCHANGED <<arg, obj, nCalls, bvars, nvars, hvars>>

(***************************************************************************)
(* Arguments tried.                                                        *)
(***************************************************************************)
In(p, x0, opts) == [prob |-> p, xInit |-> x0, opts |-> opts]

Inputs ==
  {In("SquareRoot2", FInt(10), <<>>),
   In("SquareRoot2", FInt(10), <<OptMethod("Homeier")>>),
   In("SquareRoot2", FInt(10), <<OptHeur, OptMethod("NewtonRaphson")>>),
   In("SquareRoot2", FInt(10), <<OptHeur, OptMethod("Homeier")>>),
   In("SquareRoot2", FInt(10), <<OptHeur, OptMethod("Homeier"), OptMin(5), OptMax(25),
                                 OptPrec(F1em9), OptLimits(FNeg(F1e9), F1e9)>>),
   In("SquareRoot2", F1, <<OptLimits(F0, FInt(100))>>),
   In("SquareRoot2", FInt(-1), <<OptLimits(FInt(-100), FInt(-1))>>),
   In("SquareRoot2Scaled", F25p40, <<>>),
   In("SquareRoot2Scaled", F25p40, <<OptMethod("Homeier")>>),
   In("SquareRoot2Scaled", F25p40, <<OptHeur>>),
   In("StationaryPoint", F0, <<OptHeur>>),
   In("StationaryPoint", Zero(1), <<OptHeur>>),
   In("StationaryPoint", F0, <<>>),
   In("StationaryPoint", F0, <<OptLimits(FInt(-2), F2), OptMin(1), OptMax(1)>>),
   In("StationaryPoint", F0, <<OptHeur, OptLimits(FInt(-2), F2)>>),
   In("StationaryPoint", Zero(1), <<OptLimits(FInt(-2), F2), OptMin(1), OptMax(1)>>),
   In("Cycle", F0, <<OptHeur>>),
   In("Cycle", F0, <<>>),
   In("Cycle", F0, <<OptMin(0), OptMax(3)>>),
   In("Cycle", F0, <<OptMin(3), OptMax(2)>>),
   In("Cycle", F0, <<OptMin(-3), OptMax(-1)>>),
   In("Cycle", F0, <<OptMin(2), OptMax(2)>>),
   In("StepUp", F0, <<OptMin(0), OptMax(0)>>),
   In("StepUp", F0, <<OptMin(7), OptMax(3)>>),
   In("StepUp", F0, <<OptMin(-1), OptMax(30)>>),
   In("Linear", F0, <<>>),
   In("DoubleRoot", F0, <<OptHeur>>),
   In("NoRoot", F1, <<>>),
   In("StepUp", F0, <<OptLimits(F0, FInt(4))>>),
   In("StepDown", F0, <<OptLimits(FInt(-4), F0)>>),
   In("StepUp", Inf(0), <<OptHeur>>),
   In("StepUp", Inf(0), <<>>)}

\* One call of Find
FirstCall == nCalls = 0 /\ \E in \in Inputs : Find("A", in)

Next ==
  \/ FirstCall
  \/ UpperExcess("A")
  \/ LowerExcess("A")
  \/ NaNAbort("A")
  \/ InfRecover("A")
  \/ CycleHandle("A")
  \/ Accept("A")

Spec == Init /\ [][Next]_vars

(***************************************************************************)
(* Several calls of Find, one after the other in a slot and interleaved    *)
(* round by round between the slots.                                       *)
(***************************************************************************)
MaxCalls == 3

CallInputs ==
  {In("Cycle", F0, <<OptHeur, OptMin(2), OptMax(3)>>),
   In("StationaryPoint", F0, <<OptHeur, OptLimits(FInt(-2), F2), OptMin(1), OptMax(2)>>),
   In("SquareRoot2", FInt(-1), <<OptLimits(FInt(-100), FInt(-1)), OptMin(1), OptMax(2)>>),
   In("DoubleRoot", F0, <<OptHeur>>)}

Call(c) == nCalls < MaxCalls /\ \E in \in CallInputs : Find(c, in)

NextCalls ==
  \E c \in Calls :
    \/ Call(c)
    \/ UpperExcess(c)
    \/ LowerExcess(c)
    \/ NaNAbort(c)
    \/ InfRecover(c)
    \/ CycleHandle(c)
    \/ Accept(c)

SpecCalls == Init /\ [][NextCalls]_vars

(***************************************************************************)
(* Bisect.  One action per way through the body of the for loop.           *)
(***************************************************************************)
bisectTolerance == F1em11
bisectMaxIter   == 100

\* numerics.Sign
Sign(v) == IF FLt(v, F0) THEN -1 ELSE IF FGt(v, F0) THEN 1 ELSE 0

\* a, b := aInit, bInit; i := 0
Bisect(in) ==
  /\ bpc = "idle"
  /\ bpc' = "loop"
  /\ barg' = in
  /\ a' = in.aInit
  /\ b' = in.bInit
  /\ i' = 0
  /\ UNCHANGED <<bret, blast, fvars, nvars, hvars>>

\* c := (a + b) / 2.
Mid == FDiv(FAdd(a, b), F2)

\* fxVal == 0 || (b-a)/2. < bisectTolerance, for fxVal := fx(c)
StopHit(c) ==
  \/ FEq(Fx(barg.prob, c), F0)
  \/ FLt(FDiv(FSub(b, a), F2), bisectTolerance)

\* SameSign as it would be with the comparison inverted
SameSignInverted(c) == Sign(Fx(barg.prob, c)) # Sign(Fx(barg.prob, a))

\* numerics.Sign(fxVal) == numerics.Sign(fx(a))
SameSign(c) == Sign(Fx(barg.prob, c)) = Sign(Fx(barg.prob, a))

\* return c
BisectReturn ==
  \E c \in {Mid} :
    /\ bpc = "loop" /\ i < bisectMaxIter
    /\ StopHit(c)
    /\ bpc' = "done"
    /\ bret' = c
    /\ blast' = [kind |-> "stop", c |-> c, evalA |-> FALSE]
    /\ UNCHANGED <<barg, a, b, i, fvars, nvars, hvars>>

\* BisectLower as it would be with the endpoints confused
BisectLowerSwapped ==
  \E c \in {Mid} :
    /\ bpc = "loop" /\ i < bisectMaxIter
    /\ ~StopHit(c)
    /\ SameSign(c)
    /\ b' = c
    /\ i' = i + 1
    /\ blast' = [kind |-> "lower", c |-> c, evalA |-> TRUE]
    /\ UNCHANGED <<bpc, barg, a, bret, fvars, nvars, hvars>>

\* a = c
BisectLower ==
  \E c \in {Mid} :
    /\ bpc = "loop" /\ i < bisectMaxIter
    /\ ~StopHit(c)
    /\ SameSign(c)
    /\ a' = c
    /\ i' = i + 1
    /\ blast' = [kind |-> "lower", c |-> c, evalA |-> TRUE]
    /\ UNCHANGED <<bpc, barg, b, bret, fvars, nvars, hvars>>

\* b = c
BisectUpper ==
  \E c \in {Mid} :
    /\ bpc = "loop" /\ i < bisectMaxIter
    /\ ~StopHit(c)
    /\ ~SameSign(c)
    /\ b' = c
    /\ i' = i + 1
    /\ blast' = [kind |-> "upper", c |-> c, evalA |-> TRUE]
    /\ UNCHANGED <<bpc, barg, a, bret, fvars, nvars, hvars>>

\* BisectFail as it would be if the last midpoint were returned
BisectFailMid ==
  /\ bpc = "loop" /\ ~(i < bisectMaxIter)
  /\ bpc' = "done"
  /\ bret' = blast.c
  /\ blast' = [blast EXCEPT !.kind = "fail"]
  /\ UNCHANGED <<barg, a, b, i, fvars, nvars, hvars>>

\* If bisection failed, return NaN
BisectFail ==
  /\ bpc = "loop" /\ ~(i < bisectMaxIter)
  /\ bpc' = "done"
  /\ bret' = NaN
  /\ blast' = [blast EXCEPT !.kind = "fail"]
  /\ UNCHANGED <<barg, a, b, i, fvars, nvars, hvars>>

BIn(p, lo, hi) == [prob |-> p, aInit |-> lo, bInit |-> hi]

F2p40  == Pack(0, BFromInt(1), 40, FALSE)
F2p100 == Pack(0, BFromInt(1), 100, FALSE)
F50p40 == Pack(0, BFromInt(50), 40, FALSE)

BisectInputs ==
  {BIn("SquareRoot2", F1, FInt(50)),
   BIn("SquareRoot2", F1, F2p100),
   BIn("SquareRoot2", FInt(50), F1),
   BIn("SquareRoot2", Inf(0), Inf(1)),
   BIn("SquareRoot2", NaN, F1),
   BIn("SquareRoot2", MaxFloat64, MaxFloat64),
   BIn("SquareRoot2Scaled", F2p40, F50p40),
   BIn("Linear", F1, FInt(5)),
   BIn("Linear", FInt(-1), FInt(4)),
   BIn("StepDown", F0, F1),
   BIn("LinearHuge", F2p1023, MaxFloat64)}

BisectCall == \E in \in BisectInputs : Bisect(in)

NextBisect ==
  \/ BisectCall
  \/ BisectReturn
  \/ BisectLower
  \/ BisectUpper
  \/ BisectFail

SpecBisect == Init /\ [][NextBisect]_vars

(***************************************************************************)
(* Properties of Find.                                                     *)
(***************************************************************************)
\* The variables of call c
Local(c) == <<pc[c], x[c], nIter[c], resultLookup[c], ret[c], last[c], nRetry[c]>>
\* Call c takes a step of its loop
Stepped(c) == pc[c] = "loop" /\ Local(c)' # Local(c)

RestartKinds == {"upper", "lower", "inf", "cycle"}

\* C2: a value returned from the loop (not by the NaN abort) is returned with
\* nIter >= minIterations and (|fx(x)| < targetPrecision or nIter >= maxIterations);
\* the test that ends the loop is evaluated only when nIter >= minIterations,
\* so an accepted step with nIter < minIterations never ends the loop
C2_ExitTest ==
  \A c \in Calls :
    /\ (pc[c] = "done" /\ last[c].kind = "accept") =>
         /\ ret[c] = x[c]
         /\ nIter[c] >= obj[c].minIterations
         /\ \/ FLt(FAbs(Fx(obj[c].prob, ret[c])), obj[c].targetPrecision)
            \/ nIter[c] >= obj[c].maxIterations
    /\ (last[c].kind = "accept" /\ last[c].tested) => nIter[c] >= obj[c].minIterations
    /\ (last[c].kind = "accept" /\ nIter[c] < obj[c].minIterations) => pc[c] = "loop"

\* An exact root, found in the first step, is returned at nIter = minIterations
C2_Witness ==
  \E c \in Calls :
    /\ pc[c] = "done" /\ last[c].kind = "accept"
    /\ arg[c].prob = "Linear"
    /\ IsZero(Fx(obj[c].prob, ret[c]))
    /\ nIter[c] = obj[c].minIterations /\ nIter[c] < obj[c].maxIterations

\* C3: nIter changes only by +1 and only in the step that accepts the candidate
\* (x := candidate); a round restart (clamp, infinity recovery, cycle handling)
\* leaves nIter unchanged
C3_Counter ==
  [][\A c \in Calls : Stepped(c) =>
       /\ nIter'[c] # nIter[c] =>
            /\ nIter'[c] = nIter[c] + 1
            /\ last'[c].kind = "accept"
            /\ x'[c] = Candidate(c)
       /\ last'[c].kind \in RestartKinds => nIter'[c] = nIter[c] /\ pc'[c] = "loop"
       /\ last'[c].kind = "accept" => nIter'[c] = nIter[c] + 1]_vars

\* A restart after accepted steps
C3_Witness ==
  \E c \in Calls : last[c].kind \in RestartKinds /\ nIter[c] > 0 /\ nRetry[c] > 1

\* C4: a NaN candidate makes Find return NaN in that round, without retry,
\* heuristics enabled or not, whatever nIter, minIterations and maxIterations
C4_NaN ==
  [][\A c \in Calls : (Stepped(c) /\ IsNaN(Candidate(c))) =>
       /\ pc'[c] = "done"
       /\ IsNaN(ret'[c])
       /\ <<x[c], nIter[c], nRetry[c], resultLookup[c]>>' =
            <<x[c], nIter[c], nRetry[c], resultLookup[c]>>]_vars

\* NaN returned before minIterations accepted steps
C4_Witness ==
  \E c \in Calls :
    /\ pc[c] = "done" /\ last[c].kind = "nan" /\ IsNaN(ret[c])
    /\ 0 < nIter[c] /\ nIter[c] < obj[c].minIterations

\* C5: with bounds [xMin, xMax], heuristics off and finite candidates, every accepted
\* iterate lies within [xMin, xMax]; a candidate above xMax (below xMin) is not
\* accepted but restarts the round with x set to (x + xMax)/2 ((x + xMin)/2)
C5_Bounds ==
  /\ [](\A c \in Calls :
          (~obj[c].useHeuristics /\ last[c].kind = "accept" /\ IsFinite(x[c])) =>
            ~FLt(x[c], obj[c].xMin) /\ ~FGt(x[c], obj[c].xMax))
  /\ [][\A c \in Calls : \A xNew \in {Candidate(c)} :
          (Stepped(c) /\ ~obj[c].useHeuristics /\ IsFinite(xNew)) =>
            /\ FGt(xNew, obj[c].xMax) =>
                 /\ x'[c] = FDiv(FAdd(x[c], obj[c].xMax), F2)
                 /\ last'[c].kind = "upper"
                 /\ pc'[c] = "loop" /\ nIter'[c] = nIter[c]
            /\ (~FGt(xNew, obj[c].xMax) /\ FLt(xNew, obj[c].xMin)) =>
                 /\ x'[c] = FDiv(FAdd(x[c], obj[c].xMin), F2)
                 /\ last'[c].kind = "lower"
                 /\ pc'[c] = "loop" /\ nIter'[c] = nIter[c]]_vars

\* A step accepted within the bounds after a clamp: x^2 - 612 from 1 within [0, 100]
C5_Witness ==
  \E c \in Calls :
    /\ ~obj[c].useHeuristics /\ last[c].kind = "accept" /\ nIter[c] = 1
    /\ arg[c].prob = "SquareRoot2" /\ obj[c].xMax = FInt(100)
    /\ FGt(x[c], FInt(25)) /\ FLt(x[c], obj[c].xMax)

\* C6: with heuristics enabled an infinite candidate is never accepted: on +Inf x
\* becomes x + (0.1*x + 0.1), on -Inf x becomes x - (0.1*x - 0.1), and the round
\* restarts with nIter and the seen values unchanged; Find never returns +Inf or -Inf
C6_Infinity ==
  /\ [](\A c \in Calls : obj[c].useHeuristics =>
          /\ last[c].kind = "accept" => ~IsInf(x[c], 0)
          /\ pc[c] = "done" => ~IsInf(ret[c], 0))
  /\ [][\A c \in Calls : \A xNew \in {Candidate(c)} :
          (Stepped(c) /\ obj[c].useHeuristics /\ IsInf(xNew, 0)) =>
            /\ x'[c] = IF xNew = Inf(0)
                       THEN FAdd(x[c], FAdd(FMul(F0p1, x[c]), F0p1))
                       ELSE FSub(x[c], FSub(FMul(F0p1, x[c]), F0p1))
            /\ last'[c].kind = "inf"
            /\ pc'[c] = "loop"
            /\ nIter'[c] = nIter[c]
            /\ resultLookup'[c] = resultLookup[c]]_vars

\* Recovery from -Inf: 1 - x^2 from -0 continues at x = 0.1
C6_Witness ==
  \E c \in Calls :
    /\ obj[c].useHeuristics /\ last[c].kind = "inf" /\ last[c].xNew = Inf(1)
    /\ x[c] = F0p1 /\ nIter[c] = 0 /\ resultLookup[c] = {}

\* The round of call c restarts and the restart leaves x as it is
Stuck(c) ==
  /\ pc[c] = "loop"
  /\ \E xNew \in {Candidate(c)} :
       \/ /\ ~IsInf(xNew, 0) /\ FGt(xNew, obj[c].xMax)
          /\ FDiv(FAdd(x[c], obj[c].xMax), F2) = x[c]
       \/ /\ ~IsInf(xNew, 0) /\ ~FGt(xNew, obj[c].xMax) /\ FLt(xNew, obj[c].xMin)
          /\ FDiv(FAdd(x[c], obj[c].xMin), F2) = x[c]
       \/ /\ obj[c].useHeuristics /\ xNew = Inf(0)
          /\ FAdd(x[c], FAdd(FMul(F0p1, x[c]), F0p1)) = x[c]

\* C7: nothing caps the restarts of a round: a restart leaves the call in the loop
\* with nIter unchanged however many restarts came before (maxRetries is not
\* consulted), and a call whose restart leaves x as it is restarts forever, with
\* nIter never advancing, and never returns
C7_NoRetryCap ==
  /\ [][\A c \in Calls : (Stepped(c) /\ last'[c].kind \in RestartKinds) =>
          /\ pc'[c] = "loop"
          /\ nIter'[c] = nIter[c]
          /\ nRetry'[c] = Min(nRetry[c] + 1, maxRetries + 1)]_vars
  /\ [][\A c \in Calls : Stuck(c) => Stuck(c)' /\ nIter'[c] = nIter[c]]_vars

\* More than maxRetries restarts in a row, and the next one changes nothing
C7_Witness ==
  \E c \in Calls :
    /\ Stuck(c)
    /\ nRetry[c] > maxRetries
    /\ nIter[c] < obj[c].minIterations
    /\ ENABLED UpperExcess(c)

\* The calls started close to a simple root of fx: x^2 - 612 from 10 (from 1 and
\* -1 within limits), x - 3 from 0 and x^2 - 612*2^80 from 25*2^40
NearSimpleRoot(c) == arg[c].prob \in {"SquareRoot2", "Linear", "SquareRoot2Scaled"}

StepValues ==
  {NaN, Inf(0), Inf(1), F0, Zero(1), F1, FNeg(F1), FInt(612), F1em15,
   MaxFloat64, FNeg(MaxFloat64)}

InitStep ==
  /\ InitRoot /\ InitHist
  /\ nr \in [x : StepValues, fxVal : StepValues, dfxVal : StepValues,
              done : {FALSE}, ret : {F0}]

\* return x - fx(x)/dfx(x)
StepReturn ==
  /\ ~nr.done
  /\ nr' = [nr EXCEPT !.done = TRUE, !.ret = NewtonStep(nr.x, nr.fxVal, nr.dfxVal)]
  /\ UNCHANGED <<fvars, bvars, hvars>>

NextStep == StepReturn

SpecStep == InitStep /\ [][NextStep]_vars

(***************************************************************************)
(* The histogram H1[float64]: NewH1, Fill without a weight, FindBin.       *)
(* bins[i] of the source is bins[i + 1] here, and so for binContent.       *)
(***************************************************************************)
\* a >= b, a <= b as Go evaluates them (false on NaN)
FGe(u, v) == FGt(u, v) \/ FEq(u, v)
FLe(u, v) == FLt(u, v) \/ FEq(u, v)

RECURSIVE BToInt(_)
BToInt(n) == IF n = <<>> THEN 0 ELSE n[1] + LimbBase * BToInt(Tail(n))

\* int(v) for a finite v of small magnitude: the fraction is discarded
FloatToInt(v) ==
  IF IsZero(v) THEN 0
  ELSE (IF v.s = 1 THEN -1 ELSE 1) *
       BToInt(IF v.e >= 0 THEN BShl(v.m, v.e) ELSE BShr(v.m, -v.e))

\* NewH1(n, xMin, xMax)
NewH1(n, xMin, xMax) ==
  The({ [nBins |-> n,
         bins |-> [j \in 1..(n + 1) |-> FAdd(xMin, FMul(FInt(j - 1), step))],
         binContent |-> [j \in 1..(n + 2) |-> F0],
         nEntries |-> 0,
         sumOfWeights |-> F0] : step \in {FDiv(FSub(xMax, xMin), FInt(n))} })

XMin(hh) == hh.bins[1]
XMax(hh) == hh.bins[hh.nBins + 1]

\* The bin whose content Fill(val) increments, -1 if none
FillBin(hh, val) ==
  IF FLt(val, hh.bins[1]) THEN 0
  ELSE IF FGt(val, hh.bins[hh.nBins + 1]) THEN hh.nBins + 1
  ELSE IF \E j \in 0..(hh.nBins - 2) : FGe(val, hh.bins[j + 1]) /\ FLt(val, hh.bins[j + 2])
       THEN 1 + CHOOSE j \in 0..(hh.nBins - 2) :
                  /\ FGe(val, hh.bins[j + 1]) /\ FLt(val, hh.bins[j + 2])
                  /\ \A l \in 0..(j - 1) :
                       ~(FGe(val, hh.bins[l + 1]) /\ FLt(val, hh.bins[l + 2]))
  ELSE IF FGe(val, hh.bins[hh.nBins]) /\ FLe(val, hh.bins[hh.nBins + 1]) THEN hh.nBins
  ELSE -1

\* h.Fill(val): w = 1.0
Fill(hh, val) ==
  The({ [hh EXCEPT !.nEntries = @ + 1,
                   !.sumOfWeights = FAdd(@, F1),
                   !.binContent = IF k < 0 THEN @
                                  ELSE [@ EXCEPT ![k + 1] = FAdd(@, F1)]]
        : k \in {FillBin(hh, val)} })

\* h.FindBin(x)
FindBin(hh, xv) ==
  IF FLt(xv, XMin(hh)) THEN 0
  ELSE IF FGt(xv, XMax(hh)) THEN hh.nBins + 1
  ELSE 1 + FloatToInt(FDiv(FMul(FInt(hh.nBins), FSub(xv, XMin(hh))),
                           FSub(XMax(hh), XMin(hh))))

NBinsTried == {1, 2, 3, 5}
RangesTried == {<<F0, F1>>, <<F0, FInt(3)>>, <<FInt(-1), F2>>, <<F0p1, F1>>}
ValuesTried ==
  {FInt(-2), FInt(-1), Zero(1), F0, F0p1, F0p5, F1, F2, FInt(3), FInt(4),
   FConst(0, 40265318, 53687091, -53), FConst(0, 53687091, 26843546, -54)}

NewHistCall ==
  /\ hpc = "idle"
  /\ \E n \in NBinsTried, r \in RangesTried : h' = NewH1(n, r[1], r[2])
  /\ hpc' = "new"
  /\ UNCHANGED <<hval, hfound, fvars, bvars, nvars>>

FillCall ==
  /\ hpc = "new"
  /\ \E val \in ValuesTried : hval' = val /\ h' = Fill(h, val)
  /\ hpc' = "filled"
  /\ UNCHANGED <<hfound, fvars, bvars, nvars>>

FindBinCall ==
  /\ hpc = "filled"
  /\ hfound' = FindBin(h, hval)
  /\ hpc' = "found"
  /\ UNCHANGED <<h, hval, fvars, bvars, nvars>>

NextHist == NewHistCall \/ FillCall \/ FindBinCall

SpecHist == Init /\ [][NextHist]_vars

(***************************************************************************)
(* Properties of Bisect.                                                   *)
(***************************************************************************)
\* aInit < bInit and fx(aInit), fx(bInit) of opposite sign
Bracket ==
  /\ FLt(barg.aInit, barg.bInit)
  /\ Sign(Fx(barg.prob, barg.aInit)) * Sign(Fx(barg.prob, barg.bInit)) = -1

\* (b - a)/2 of the final bracket
HalfWidth == FDiv(FSub(b, a), F2)

\* The bracket of TestBisectTable for x*x - 612
TestBracket == BIn("SquareRoot2", F1, FInt(50))

\* C8 as stated: for every bracket Bisect returns, within 100 rounds, a non-NaN
\* midpoint of a final bracket of half-width at most 1e-11, or with fx exactly 0
C8_Original ==
  (bpc = "done" /\ Bracket) =>
    /\ ~IsNaN(bret)
    /\ i < bisectMaxIter
    /\ bret = Mid
    /\ ~FGt(HalfWidth, F1em11) \/ FEq(Fx(barg.prob, bret), F0)

\* C8 amended: for a bracket Bisect returns either, within 100 rounds, a non-NaN
\* midpoint of a final bracket of half-width at most 1e-11 or with fx exactly 0, or
\* NaN after 100 rounds without the stop condition; for the bracket [1, 50] of
\* x*x - 612 it returns a non-NaN x with |fx(x)| <= 1e-9
C8_Amended ==
  (bpc = "done" /\ Bracket) =>
    /\ \/ /\ ~IsNaN(bret)
          /\ i < bisectMaxIter
          /\ bret = Mid
          /\ ~FGt(HalfWidth, F1em11) \/ FEq(Fx(barg.prob, bret), F0)
       \/ /\ IsNaN(bret)
          /\ i = bisectMaxIter
          /\ blast.kind = "fail"
    /\ barg = TestBracket =>
         /\ IsFinite(bret)
         /\ ~FGt(FAbs(Fx(barg.prob, bret)), F1em9)

\* The test's bracket: returned in round 43 from a bracket of half-width below 1e-11
C8_Witness ==
  /\ bpc = "done" /\ barg = TestBracket
  /\ i = 42 /\ blast.kind = "stop"
  /\ FLt(HalfWidth, F1em11) /\ FNe(Fx(barg.prob, bret), F0)

\* C9 as stated: Bisect ends after at most 100 iterations and returns NaN if and
\* only if all 100 iterations completed without the stop condition; otherwise it
\* returns the midpoint c of the first iteration with fx(c) == 0 or
\* (b-a)/2 < 1e-11, without evaluating fx(a) in that iteration
C9_Original ==
  /\ i <= bisectMaxIter
  /\ bpc = "done" =>
       /\ IsNaN(bret) <=> (blast.kind = "fail" /\ i = bisectMaxIter)
       /\ blast.kind # "fail" =>
            /\ blast.kind = "stop" /\ i < bisectMaxIter
            /\ bret = blast.c /\ bret = Mid
            /\ StopHit(blast.c)
            /\ ~blast.evalA

\* C9 amended: as stated, but NaN is returned if (not: only if) all 100 iterations
\* completed without the stop condition; for finite aInit and bInit also only if
C9_Amended ==
  /\ i <= bisectMaxIter
  /\ bpc = "done" =>
       /\ (blast.kind = "fail" /\ i = bisectMaxIter) => IsNaN(bret)
       /\ (IsFinite(barg.aInit) /\ IsFinite(barg.bInit)) =>
            (IsNaN(bret) => (blast.kind = "fail" /\ i = bisectMaxIter))
       /\ blast.kind # "fail" =>
            /\ blast.kind = "stop" /\ i < bisectMaxIter
            /\ bret = blast.c /\ bret = Mid
            /\ StopHit(blast.c)
            /\ ~blast.evalA

\* NaN after 100 iterations from finite limits
C9_Witness ==
  /\ bpc = "done" /\ IsNaN(bret) /\ i = bisectMaxIter
  /\ IsFinite(barg.aInit) /\ IsFinite(barg.bInit)
  /\ blast.kind = "fail" /\ blast.evalA

(***************************************************************************)
(* Properties of several calls.                                            *)
(***************************************************************************)
\* A call that has just reached the head of its loop for the first time
Started(c) == pc[c] = "loop" /\ last[c] = NoLast

\* Equal arguments, equal result
SameResults == \A e1, e2 \in log : e1[1] = e2[1] => e1[2] = e2[2]

\* C10: the seen-values set is empty at the start of every Find call; calls with
\* identical inputs return identical results, run one after the other or
\* interleaved; and a round of one call changes nothing of another call
C10_Isolation ==
  /\ [](\A c \in Calls : Started(c) => resultLookup[c] = {})
  /\ []SameResults
  /\ [][\A c, d \in Calls : (Stepped(c) /\ d # c) => Local(d)' = Local(d)]_vars

\* Two calls with the same arguments that used the seen-values set have both
\* returned, each keeping its own set, while three calls were made
C10_Witness ==
  /\ nCalls = MaxCalls
  /\ pc["A"] = "done" /\ pc["B"] = "done"
  /\ arg["A"] = arg["B"] /\ ret["A"] = ret["B"]
  /\ last["A"].kind = "accept"
  /\ resultLookup["A"] # {} /\ resultLookup["A"] = resultLookup["B"]

(***************************************************************************)
(* Further properties of Find.                                             *)
(***************************************************************************)
\* C11: with heuristics disabled an infinite candidate is neither clamped nor
\* retried: it becomes x, nIter grows by one, and the test that ends the loop is
\* applied to it as to any accepted step, so that Find returns the infinite value
\* if nIter >= minIterations and nIter >= maxIterations
C11_InfinityKept ==
  [][\A c \in Calls : \A xNew \in {Candidate(c)} :
       (Stepped(c) /\ ~obj[c].useHeuristics /\ IsInf(xNew, 0)) =>
         /\ x'[c] = xNew
         /\ nIter'[c] = nIter[c] + 1
         /\ last'[c].kind = "accept"
         /\ last'[c].tested <=> nIter'[c] >= obj[c].minIterations
         /\ pc'[c] = "done" <=>
              /\ nIter'[c] >= obj[c].minIterations
              /\ \/ FLt(FAbs(Fx(obj[c].prob, xNew)), obj[c].targetPrecision)
                 \/ nIter'[c] >= obj[c].maxIterations
         /\ pc'[c] = "done" => ret'[c] = xNew
         /\ (nIter'[c] >= obj[c].minIterations /\ nIter'[c] >= obj[c].maxIterations) =>
              pc'[c] = "done" /\ IsInf(ret'[c], 0)]_vars

\* 1 - x^2 from 0 within [-2, 2]: the candidate +Inf, above xMax, is returned
C11_Witness ==
  \E c \in Calls :
    /\ pc[c] = "done" /\ ~obj[c].useHeuristics
    /\ ret[c] = Inf(0) /\ obj[c].xMax = F2
    /\ IsFinite(arg[c].xInit)
    /\ nIter[c] = 1 /\ last[c].kind = "accept" /\ last[c].tested

\* The sign of fx(x)/dfx(x) for a zero dfx(x) and a non-zero, non-NaN fx(x)
QuotientSign == (nr.fxVal.s + nr.dfxVal.s) % 2

\* C12 as stated: the step gives +Inf or -Inf when dfx(x) == 0, and NaN if fx(x)
\* or dfx(x) is NaN
C12_Original ==
  nr.done =>
    /\ IsZero(nr.dfxVal) => IsInf(nr.ret, 0)
    /\ (IsNaN(nr.fxVal) \/ IsNaN(nr.dfxVal)) => IsNaN(nr.ret)

\* C12 amended: the step gives NaN if fx(x) or dfx(x) is NaN; when dfx(x) == 0 it
\* gives NaN if fx(x) == 0 (0/0), otherwise, for fx(x) not NaN, the infinity
\* opposite to fx(x)/dfx(x), unless x is NaN or that same infinity, which give NaN
C12_Amended ==
  nr.done =>
    /\ (IsNaN(nr.fxVal) \/ IsNaN(nr.dfxVal)) => IsNaN(nr.ret)
    /\ (IsZero(nr.dfxVal) /\ IsZero(nr.fxVal)) => IsNaN(nr.ret)
    /\ (IsZero(nr.dfxVal) /\ ~IsZero(nr.fxVal) /\ ~IsNaN(nr.fxVal)) =>
         IF IsNaN(nr.x) \/ nr.x = Inf(QuotientSign)
         THEN IsNaN(nr.ret)
         ELSE nr.ret = Inf(1 - QuotientSign)

\* 1 - 612/(-0) = +Inf
C12_Witness ==
  /\ nr.done
  /\ nr.x = F1 /\ nr.fxVal = FInt(612) /\ nr.dfxVal = Zero(1)
  /\ nr.ret = Inf(0)

\* What a round of call c with candidate xNew does, the checks taken in the order
\* bound clamp, NaN abort, infinity recovery, cycle handling, accept
RoundKind(c, xNew) ==
  IF IsFinite(xNew) /\ FGt(xNew, obj[c].xMax) THEN "upper"
  ELSE IF IsFinite(xNew) /\ FLt(xNew, obj[c].xMin) THEN "lower"
  ELSE IF IsNaN(xNew) THEN "nan"
  ELSE IF obj[c].useHeuristics /\ IsInf(xNew, 0) THEN "inf"
  ELSE IF /\ obj[c].useHeuristics
          /\ FGt(FAbs(FSub(xNew, x[c])), F1em15)
          /\ \E y \in resultLookup[c] : FEq(y, xNew) THEN "cycle"
  ELSE "accept"

\* C13: every round applies the checks in the order bound clamp, NaN abort,
\* infinity recovery, cycle handling, accept; a finite candidate outside
\* [xMin, xMax] restarts the round with the seen values unchanged, and every
\* member of the seen values is finite and within [xMin, xMax]
C13_Order ==
  /\ [](\A c \in Calls : \A v \in resultLookup[c] :
          IsFinite(v) /\ ~FGt(v, obj[c].xMax) /\ ~FLt(v, obj[c].xMin))
  /\ [][\A c \in Calls : \A xNew \in {Candidate(c)} : Stepped(c) =>
          /\ last'[c].kind = RoundKind(c, xNew)
          /\ (IsFinite(xNew) /\ (FGt(xNew, obj[c].xMax) \/ FLt(xNew, obj[c].xMin))) =>
               /\ last'[c].kind \in {"upper", "lower"}
               /\ resultLookup'[c] = resultLookup[c]]_vars

\* 1 - x^2 from 0 within [-2, 2] with heuristics: after the recovery from +Inf the
\* candidate 5.05 is clamped, and the first value stored is 1.0011904761904762
C13_Witness ==
  \E c \in Calls :
    /\ obj[c].useHeuristics /\ obj[c].xMax = F2 /\ arg[c].prob = "StationaryPoint"
    /\ last[c].kind = "accept" /\ nIter[c] = 1
    /\ resultLookup[c] = {x[c]}
    /\ FGt(x[c], F1) /\ FLt(x[c], F2)

\* C14: with heuristics, a finite in-bounds candidate with |candidate - x| > 1e-15
\* that is already among the seen values (and differs from x) is not accepted: x
\* becomes (candidate + x)/2 and the round restarts with nIter and the seen values
\* unchanged; one not yet seen is stored and accepted in the same round; so a
\* strategy alternating between two values is taken out of its cycle: after the
\* restart x is neither of the two
C14_CycleBroken ==
  [][\A c \in Calls : \A xNew \in {Candidate(c)} :
       ( /\ Stepped(c) /\ obj[c].useHeuristics
         /\ IsFinite(xNew) /\ ~FGt(xNew, obj[c].xMax) /\ ~FLt(xNew, obj[c].xMin)
         /\ FGt(FAbs(FSub(xNew, x[c])), F1em15) /\ FNe(xNew, x[c]) ) =>
         IF \E y \in resultLookup[c] : FEq(y, xNew)
         THEN /\ x'[c] = FDiv(FAdd(xNew, x[c]), F2)
              /\ last'[c].kind = "cycle" /\ pc'[c] = "loop"
              /\ nIter'[c] = nIter[c]
              /\ resultLookup'[c] = resultLookup[c]
              /\ Method(obj[c].method, xNew, obj[c].prob) = x[c] =>
                   x'[c] # x[c] /\ x'[c] # xNew
         ELSE /\ x'[c] = xNew
              /\ last'[c].kind = "accept"
              /\ nIter'[c] = nIter[c] + 1
              /\ resultLookup'[c] = resultLookup[c] \cup {xNew}]_vars

C16_FindBin ==
  hpc = "found" =>
    /\ (FLe(XMin(h), hval) /\ FLe(hval, XMax(h))) =>
         /\ hfound \in 1..h.nBins
         /\ h.binContent[hfound + 1] = F1
    /\ FLt(hval, XMin(h)) => hfound = 0
    /\ FGt(hval, XMax(h)) => hfound = h.nBins + 1

\* C17: whatever minIterations and maxIterations are, a result returned from the
\* loop (not by the NaN abort) is returned with nIter at least max(1, minIterations)
\* and at most max(1, minIterations, maxIterations); with the defaults between 5
\* and 25; with minIterations >= maxIterations exactly max(1, minIterations)
C17_IterationBounds ==
  \A c \in Calls : (pc[c] = "done" /\ last[c].kind = "accept") =>
    /\ nIter[c] >= Max(1, obj[c].minIterations)
    /\ nIter[c] <= Max(1, Max(obj[c].minIterations, obj[c].maxIterations))
    /\ (obj[c].minIterations = 5 /\ obj[c].maxIterations = 25) =>
         nIter[c] \in 5..25
    /\ obj[c].minIterations >= obj[c].maxIterations =>
         nIter[c] = Max(1, obj[c].minIterations)

\* minIterations = 3 > maxIterations = 2: returned after 3 steps, far from a root
C17_Witness ==
  \E c \in Calls :
    /\ pc[c] = "done" /\ last[c].kind = "accept"
    /\ obj[c].minIterations = 3 /\ obj[c].maxIterations = 2
    /\ nIter[c] = 3
    /\ ~FLt(FAbs(Fx(obj[c].prob, ret[c])), obj[c].targetPrecision)

\* C18: with heuristics, the seen values are exactly the candidates accepted in
\* this call by a step with |candidate - x| > 1e-15: the set is empty when the
\* loop starts (xInit is not stored), such a step adds its candidate, no other
\* step changes the set, and such a step never accepts a value already in the set
C18_SeenExact ==
  /\ [](\A c \in Calls : Started(c) => resultLookup[c] = {})
  /\ [][\A c \in Calls : \A xNew \in {Candidate(c)} :
          (Stepped(c) /\ obj[c].useHeuristics) =>
            IF last'[c].kind = "accept" /\ FGt(FAbs(FSub(xNew, x[c])), F1em15)
            THEN /\ ~\E y \in resultLookup[c] : FEq(y, xNew)
                 /\ resultLookup'[c] = resultLookup[c] \cup {xNew}
            ELSE resultLookup'[c] = resultLookup[c]]_vars

\* x^3 - 2x + 2 from 0: 1 and 0 were accepted and stored, 1 came again and was
\* not accepted
C18_Witness ==
  \E c \in Calls :
    /\ obj[c].useHeuristics /\ arg[c].prob = "Cycle"
    /\ resultLookup[c] = {F1, F0}
    /\ last[c].kind = "cycle" /\ last[c].xNew = F1
    /\ nIter[c] = 2

(***************************************************************************)
(* The bracket of Bisect.                                                  *)
(***************************************************************************)
\* The current bracket lies within the initial one, with the initial signs of fx
BracketKept ==
  /\ FLe(barg.aInit, a) /\ FLt(a, b) /\ FLe(b, barg.bInit)
  /\ Sign(Fx(barg.prob, a)) = Sign(Fx(barg.prob, barg.aInit))
  /\ Sign(Fx(barg.prob, b)) = Sign(Fx(barg.prob, barg.bInit))

\* The iteration moves one endpoint to the midpoint: a if Sign(fx(c)) == Sign(fx(a))
MovesOne ==
  \A c \in {Mid} :
    IF Sign(Fx(barg.prob, c)) = Sign(Fx(barg.prob, a))
    THEN a' = c /\ b' = b
    ELSE b' = c /\ a' = a

\* a + b cannot overflow: |aInit| and |bInit| are at most MaxFloat64/2
SumFinite ==
  /\ ~FGt(FAbs(barg.aInit), FDiv(MaxFloat64, F2))
  /\ ~FGt(FAbs(barg.bInit), FDiv(MaxFloat64, F2))

\* C19 as stated: with aInit < bInit and fx(aInit), fx(bInit) non-zero and of
\* opposite sign, every iteration that does not return moves one endpoint to the
\* midpoint, keeps aInit <= a < b <= bInit and the signs of fx(a) and fx(b), and
\* halves the width of the bracket
C19_Original ==
  /\ []((Bracket /\ bpc # "idle") => BracketKept)
  /\ [][(Bracket /\ bpc = "loop" /\ i' = i + 1) =>
          /\ MovesOne
          /\ FSub(b', a') = FDiv(FSub(b, a), F2)]_vars

\* C19 amended: as stated for |aInit|, |bInit| <= MaxFloat64/2, but the width
\* b - a never grows, shrinks when the midpoint lies strictly between a and b
\* (it halves in every iteration of the bracket [1, 50] of x*x - 612), and
\* stays as it is when the midpoint rounds to a or b
C19_Amended ==
  /\ []((Bracket /\ SumFinite /\ bpc # "idle") => BracketKept)
  /\ [][(Bracket /\ SumFinite /\ bpc = "loop" /\ i' = i + 1) =>
          /\ MovesOne
          /\ ~FGt(FSub(b', a'), FSub(b, a))
          /\ \A c \in {Mid} :
               IF FLt(a, c) /\ FLt(c, b)
               THEN FLt(FSub(b', a'), FSub(b, a))
               ELSE a' = a /\ b' = b
          /\ barg = TestBracket => FSub(b', a') = FDiv(FSub(b, a), F2)]_vars

\* The test's bracket after ten iterations that moved both endpoints
C19_Witness ==
  /\ barg = TestBracket /\ bpc = "loop" /\ i = 10
  /\ FLt(barg.aInit, a) /\ FLt(b, barg.bInit)
  /\ FSub(b, a) = FDiv(FInt(49), FInt(1024))
=============================================================================
